---- MODULE Spec2Model ----
(***************************************************************************)
(* Vector Pong (src/main.py): the paddle/ball physics of Paddle and Ball   *)
(* and the round/score state machine of Game.update and Game.run.          *)
(*                                                                         *)
(* Numbers.  The program computes in floats.  Here a length is an integer  *)
(* number of 1/PX pixels, a velocity an integer number of 1/PX pixels per  *)
(* second, a frame time an integer number of milliseconds (pygame's        *)
(* Clock.tick returns whole milliseconds), a slider value an integer       *)
(* number of 1/SLIDER_ONE, an angle a whole number of degrees.  Every      *)
(* product is rounded to the nearest unit where the float is rounded to    *)
(* the nearest representable number, so a result can be off by a rounding  *)
(* step, as the float can.                                                 *)
(***************************************************************************)
EXTENDS Integers, Sequences, FiniteSets, TLC

\* ------------------------------------------------------------ constants
WINDOW_WIDTH == 1080
WINDOW_HEIGHT == 720
MAX_BOUNCE_ANGLE == 60
PADDLE_WIDTH == 15
PADDLE_HEIGHT == 100
PADDLE_SPEED == 400
BALL_RADIUS == 8
BASE_SPEED == 400
ACCELERATION_PERCENT == 105
WINNING_SCORE == 5
LEFT_PADDLE_X == 50
RIGHT_PADDLE_INSET == 65
PADDLE_START_INSET == 50
MAX_SERVE_ANGLE == 45

\* Units of length per pixel, and of a slider value per 1.0.
PX == 10
SLIDER_ONE == 2
\* The scale of the cosine and sine tables.
TRIG_ONE == 10000

\* ------------------------------------------------------------ bounds
\* Frames after which a rally is not followed further.
MaxFrames == 24
\* Points after which the play of SpecRally and SpecVolley is not followed
\* further.
MaxPoints == 1
\* Frames after which the volley of SpecVolley is not followed further.
MaxVolley == 120
\* Records after which End Game is not clicked again.
MaxLogs == 2

W == WINDOW_WIDTH * PX
H == WINDOW_HEIGHT * PX
Radius == BALL_RADIUS * PX
PaddleW == PADDLE_WIDTH * PX
PaddleH == PADDLE_HEIGHT * PX

\* ------------------------------------------------------------ arithmetic
Abs(a) == IF a < 0 THEN -a ELSE a

Sign(a) == IF a < 0 THEN -1 ELSE IF a > 0 THEN 1 ELSE 0

Min(a, b) == IF a < b THEN a ELSE b

Max(a, b) == IF a > b THEN a ELSE b

\* a / d rounded to the nearest integer, halves away from zero (d > 0).
RoundDiv(a, d) == Sign(a) * ((2 * Abs(a) + d) \div (2 * d))

RECURSIVE SqrtFloor(_, _, _)
\* The largest r in lo..hi with r * r <= n (lo * lo <= n < (hi + 1)^2).
SqrtFloor(n, lo, hi) ==
    IF lo = hi THEN lo
    ELSE LET mid == (lo + hi + 1) \div 2
         IN IF mid * mid <= n THEN SqrtFloor(n, mid, hi)
                              ELSE SqrtFloor(n, lo, mid - 1)

\* math.sqrt, rounded to the nearest unit.
Sqrt(n) ==
    LET r == SqrtFloor(n, 0, 32767)
    IN IF n - r * r > r THEN r + 1 ELSE r

CosTable ==
    << 10000, 9998, 9994, 9986, 9976, 9962, 9945, 9925, 9903, 9877,
       9848, 9816, 9781, 9744, 9703, 9659, 9613, 9563, 9511, 9455,
       9397, 9336, 9272, 9205, 9135, 9063, 8988, 8910, 8829, 8746,
       8660, 8572, 8480, 8387, 8290, 8192, 8090, 7986, 7880, 7771,
       7660, 7547, 7431, 7314, 7193, 7071, 6947, 6820, 6691, 6561,
       6428, 6293, 6157, 6018, 5878, 5736, 5592, 5446, 5299, 5150,
       5000 >>

SinTable ==
    << 0, 175, 349, 523, 698, 872, 1045, 1219, 1392, 1564,
       1736, 1908, 2079, 2250, 2419, 2588, 2756, 2924, 3090, 3256,
       3420, 3584, 3746, 3907, 4067, 4226, 4384, 4540, 4695, 4848,
       5000, 5150, 5299, 5446, 5592, 5736, 5878, 6018, 6157, 6293,
       6428, 6561, 6691, 6820, 6947, 7071, 7193, 7314, 7431, 7547,
       7660, 7771, 7880, 7986, 8090, 8192, 8290, 8387, 8480, 8572,
       8660 >>

\* math.cos and math.sin of an angle of deg degrees, -60 <= deg <= 60,
\* times TRIG_ONE.
Cos(deg) == CosTable[Abs(deg) + 1]

Sin(deg) == Sign(deg) * SinTable[Abs(deg) + 1]

\* ------------------------------------------------------------ Vector2D
Vector2D(x, y) == [x |-> x, y |-> y]

VAdd(a, b) == Vector2D(a.x + b.x, a.y + b.y)

VSub(a, b) == Vector2D(a.x - b.x, a.y - b.y)

VMul(a, k) == Vector2D(a.x * k, a.y * k)

Dot(a, b) == a.x * b.x + a.y * b.y

Magnitude(v) == Sqrt(v.x * v.x + v.y * v.y)

\* reflect is only called with the unit normals (0, 1) and (0, -1), which
\* normalize() returns unchanged.
Reflect(v, normal) == VSub(v, VMul(normal, 2 * Dot(v, normal)))

\* ------------------------------------------------------------ time
\* A frame time dt is a number of ticks, SLIDER_ONE to the millisecond, so
\* that dt * slider value / SLIDER_ONE is again a whole number of ticks.
TicksPerSecond == 1000 * SLIDER_ONE

\* ------------------------------------------------------------ Paddle
\* Paddle.__init__: width, height and speed are the same for every paddle and
\* velocity is written by move and never read, so a paddle is its position.
Paddle(x, y) == [position |-> Vector2D(x * PX, y * PX)]

\* Move with the clamp at the bottom wall left out.
MoveNoBottomClamp(paddle, direction, dt, speed_multiplier) ==
    LET velocity == Vector2D(0, direction * PADDLE_SPEED * PX * speed_multiplier)
        moved == paddle.position.y
                   + RoundDiv(velocity.y * dt, SLIDER_ONE * TicksPerSecond)
    IN [position |-> Vector2D(paddle.position.x, IF moved < 0 THEN 0 ELSE moved)]

Move(paddle, direction, dt, speed_multiplier) ==
    LET velocity == Vector2D(0, direction * PADDLE_SPEED * PX * speed_multiplier)
        moved == paddle.position.y
                   + RoundDiv(velocity.y * dt, SLIDER_ONE * TicksPerSecond)
        y == IF moved < 0 THEN 0
             ELSE IF moved + PaddleH > H THEN H - PaddleH
             ELSE moved
    IN [position |-> Vector2D(paddle.position.x, y)]

\* ------------------------------------------------------------ Ball
\* Ball.__init__: velocity (0, 0); radius, base_speed and acceleration_factor
\* are constants; speed_multiplier is written by update and never read.
Ball(x, y) == [position |-> Vector2D(x * PX, y * PX), velocity |-> Vector2D(0, 0)]

\* reflect_from_paddle accelerating once per rally: only a ball still at its
\* serve speed.
ReflectFromPaddleOnce(b, paddle, acceleration_enabled) ==
    LET paddle_center_y == paddle.position.y + PaddleH \div 2
        offset == b.position.y - paddle_center_y
        clamped == Max(-(PaddleH \div 2), Min(PaddleH \div 2, offset))
        bounce_angle == RoundDiv(clamped * MAX_BOUNCE_ANGLE, PaddleH \div 2)
        direction == IF b.velocity.x < 0 THEN 1 ELSE -1
        magnitude == Magnitude(b.velocity)
        speed == IF acceleration_enabled /\ magnitude <= BASE_SPEED * PX
                 THEN RoundDiv(magnitude * ACCELERATION_PERCENT, 100)
                 ELSE magnitude
    IN [b EXCEPT !.velocity =
            Vector2D(RoundDiv(Cos(bounce_angle) * speed, TRIG_ONE) * direction,
                     RoundDiv(Sin(bounce_angle) * speed, TRIG_ONE))]

\* reflect_from_paddle with the sine and the cosine of the bounce angle
\* exchanged.
ReflectFromPaddleSteep(b, paddle, acceleration_enabled) ==
    LET paddle_center_y == paddle.position.y + PaddleH \div 2
        offset == b.position.y - paddle_center_y
        clamped == Max(-(PaddleH \div 2), Min(PaddleH \div 2, offset))
        bounce_angle == RoundDiv(clamped * MAX_BOUNCE_ANGLE, PaddleH \div 2)
        direction == IF b.velocity.x < 0 THEN 1 ELSE -1
        magnitude == Magnitude(b.velocity)
        speed == IF acceleration_enabled
                 THEN RoundDiv(magnitude * ACCELERATION_PERCENT, 100)
                 ELSE magnitude
    IN [b EXCEPT !.velocity =
            Vector2D(RoundDiv(Sin(bounce_angle) * speed, TRIG_ONE) * direction,
                     RoundDiv(Cos(bounce_angle) * speed, TRIG_ONE))]

ReflectFromPaddle(b, paddle, acceleration_enabled) ==
    LET paddle_center_y == paddle.position.y + PaddleH \div 2
        offset == b.position.y - paddle_center_y
        \* normalized_offset = max(-1, min(1, offset / (height / 2)))
        clamped == Max(-(PaddleH \div 2), Min(PaddleH \div 2, offset))
        bounce_angle == RoundDiv(clamped * MAX_BOUNCE_ANGLE, PaddleH \div 2)
        direction == IF b.velocity.x < 0 THEN 1 ELSE -1
        magnitude == Magnitude(b.velocity)
        speed == IF acceleration_enabled
                 THEN RoundDiv(magnitude * ACCELERATION_PERCENT, 100)
                 ELSE magnitude
    IN [b EXCEPT !.velocity =
            Vector2D(RoundDiv(Cos(bounce_angle) * speed, TRIG_ONE) * direction,
                     RoundDiv(Sin(bounce_angle) * speed, TRIG_ONE))]

\* reset that serves at the speed the ball had, where it had one above
\* base_speed.
BallResetKeepsSpeed(b, x, y, angle, direction) ==
    LET speed == Max(BASE_SPEED * PX, Magnitude(b.velocity))
    IN [position |-> Vector2D(x * PX, y * PX),
        velocity |-> Vector2D(RoundDiv(Cos(angle) * speed, TRIG_ONE) * direction,
                              RoundDiv(Sin(angle) * speed, TRIG_ONE))]

\* Ball.reset with the two random draws as parameters: angle in degrees,
\* direction in {-1, 1}.
BallReset(b, x, y, angle, direction) ==
    [position |-> Vector2D(x * PX, y * PX),
     velocity |-> Vector2D(RoundDiv(Cos(angle) * BASE_SPEED * PX, TRIG_ONE) * direction,
                           RoundDiv(Sin(angle) * BASE_SPEED * PX, TRIG_ONE))]

\* update that ignores the ball-speed multiplier.
BallUpdateNoMultiplier(b, dt, speed_multiplier) ==
    [b EXCEPT !.position =
        Vector2D(b.position.x + RoundDiv(b.velocity.x * dt, TicksPerSecond),
                 b.position.y + RoundDiv(b.velocity.y * dt, TicksPerSecond))]

BallUpdate(b, dt, speed_multiplier) ==
    [b EXCEPT !.position =
        Vector2D(b.position.x + RoundDiv(b.velocity.x * dt * speed_multiplier,
                                         SLIDER_ONE * TicksPerSecond),
                 b.position.y + RoundDiv(b.velocity.y * dt * speed_multiplier,
                                         SLIDER_ONE * TicksPerSecond))]

\* The vector from the closest point of the paddle's rectangle to the ball.
DistanceVec(b, paddle) ==
    LET closest_x == Max(paddle.position.x,
                         Min(b.position.x, paddle.position.x + PaddleW))
        closest_y == Max(paddle.position.y,
                         Min(b.position.y, paddle.position.y + PaddleH))
    IN VSub(b.position, Vector2D(closest_x, closest_y))

\* A collision only when the ball's center is inside the paddle's rectangle.
TouchesCenterOnly(b, paddle) ==
    LET d == DistanceVec(b, paddle)
    IN d.x = 0 /\ d.y = 0

\* distance <= radius, decided on the squares (sqrt is monotone).
Touches(b, paddle) ==
    LET d == DistanceVec(b, paddle)
    IN d.x * d.x + d.y * d.y <= Radius * Radius

\* Ball.check_paddle_collision: the ball afterwards and the value returned.
CheckPaddleCollision(b, paddle, acceleration_enabled) ==
    IF Touches(b, paddle)
    THEN LET bounced == ReflectFromPaddle(b, paddle, acceleration_enabled)
             overlap == Radius - Magnitude(DistanceVec(b, paddle))
             push_x == IF bounced.velocity.x > 0 THEN 1 ELSE -1
         IN [ball |-> IF overlap > 0
                      THEN [bounced EXCEPT !.position.x = @ + push_x * overlap]
                      ELSE bounced,
             hit |-> TRUE]
    ELSE [ball |-> b, hit |-> FALSE]

\* check_wall_collision that reflects the velocity and leaves the position.
CheckWallCollisionNoClamp(b) ==
    IF b.position.y - Radius <= 0
    THEN [ball |-> [b EXCEPT !.velocity = Reflect(b.velocity, Vector2D(0, 1))],
          hit |-> TRUE]
    ELSE IF b.position.y + Radius >= H
    THEN [ball |-> [b EXCEPT !.velocity = Reflect(b.velocity, Vector2D(0, -1))],
          hit |-> TRUE]
    ELSE [ball |-> b, hit |-> FALSE]

\* check_wall_collision without the bottom wall.
CheckWallCollisionTopOnly(b) ==
    IF b.position.y - Radius <= 0
    THEN [ball |-> [b EXCEPT !.velocity = Reflect(b.velocity, Vector2D(0, 1)),
                             !.position.y = Radius],
          hit |-> TRUE]
    ELSE [ball |-> b, hit |-> FALSE]

\* Ball.check_wall_collision: the ball afterwards and the value returned.
CheckWallCollision(b) ==
    IF b.position.y - Radius <= 0
    THEN [ball |-> [position |-> Vector2D(b.position.x, Radius),
                    velocity |-> Reflect(b.velocity, Vector2D(0, 1))],
          hit |-> TRUE]
    ELSE IF b.position.y + Radius >= H
    THEN [ball |-> [position |-> Vector2D(b.position.x, H - Radius),
                    velocity |-> Reflect(b.velocity, Vector2D(0, -1))],
          hit |-> TRUE]
    ELSE [ball |-> b, hit |-> FALSE]

\* check_score with the two players exchanged.
CheckScoreSwapped(b) ==
    IF b.position.x - Radius <= 0 THEN "left"
    ELSE IF b.position.x + Radius >= W THEN "right"
    ELSE "none"

CheckScore(b) ==
    IF b.position.x - Radius <= 0 THEN "right"
    ELSE IF b.position.x + Radius >= W THEN "left"
    ELSE "none"

\* ------------------------------------------------------------ PlayerLog
\* The f-string of add_log (line 372).
LogEntry(player1_name, player2_name, left, right) ==
    player1_name \o " vs " \o player2_name \o ": "
        \o ToString(left) \o "-" \o ToString(right)

\* PlayerLog.add_log on the list lg: the list afterwards.  (The line it
\* also writes to the file is the same record.)
AddLog(lg, player1_name, player2_name, left, right) ==
    Append(lg, LogEntry(player1_name, player2_name, left, right))

\* ------------------------------------------------------------ inputs
\* Values a slider is dragged to (0.5 and 2.0; it starts at 1.0).
SliderValues == {1, 4}

\* Serve angles random.uniform(-pi/4, pi/4) may draw, in degrees.
ServeAngles == {-MAX_SERVE_ANGLE, 0, MAX_SERVE_ANGLE}

\* pygame.key.get_pressed(): which of W, S, UP and DOWN are held.
KeyStates == [w : BOOLEAN, s : BOOLEAN, up : BOOLEAN, down : BOOLEAN]

NoKeys == [w |-> FALSE, s |-> FALSE, up |-> FALSE, down |-> FALSE]

\* Both players steer the same way, or neither steers.
SameWayKeys == {k \in KeyStates : k.w = k.up /\ k.s = k.down /\ ~(k.w /\ k.s)}

\* Frame times Clock.tick may return, in milliseconds: the three tenths of
\* a second of a slow machine, and the 16 or 17 of a machine that keeps
\* FPS = 60.
SlowDts == {300}

\* The fifth of a second of a machine that draws five frames a second.
FifthDts == {200}

SteadyDts == {16, 17}

\* Names typed into the start menu.
Player1Names == {"Ann"}

Player2Names == {"Bob"}

\* ------------------------------------------------------------ state
VARIABLES
    state,                \* Game.state
    left_paddle,          \* Game.left_paddle
    right_paddle,         \* Game.right_paddle
    ball,                 \* Game.ball
    left_score,           \* Game.left_score
    right_score,          \* Game.right_score
    player_names,         \* Game.player1_name, Game.player2_name
    menu_names,           \* StartMenu.player1_name, StartMenu.player2_name
    game_speed,           \* Game.game_speed_slider.value
    paddle_speed,         \* Game.paddle_speed_slider.value
    ball_speed,           \* Game.ball_speed_slider.value
    acceleration,         \* Game.acceleration_toggle.state
    hit,                  \* what the last update's collision checks returned
    scorer,               \* update's local scorer, as last computed
    rally_frames,         \* frames played since the last serve
    logs                  \* Game.player_log.logs, no log file at the start

vars == <<state, left_paddle, right_paddle, ball, left_score, right_score,
          player_names, menu_names, game_speed, paddle_speed, ball_speed,
          acceleration, hit, scorer, rally_frames, logs>>

settings == <<game_speed, paddle_speed, ball_speed, acceleration>>

names == <<player_names, menu_names>>

NoHit == [left |-> FALSE, right |-> FALSE, wall |-> FALSE]

\* Game.__init__
Init ==
    /\ state = "menu"
    /\ left_paddle = Paddle(LEFT_PADDLE_X, WINDOW_HEIGHT \div 2 - PADDLE_START_INSET)
    /\ right_paddle = Paddle(WINDOW_WIDTH - RIGHT_PADDLE_INSET,
                             WINDOW_HEIGHT \div 2 - PADDLE_START_INSET)
    /\ ball = Ball(WINDOW_WIDTH \div 2, WINDOW_HEIGHT \div 2)
    /\ left_score = 0
    /\ right_score = 0
    /\ player_names = <<"", "">>
    /\ menu_names = <<"", "">>
    /\ game_speed = SLIDER_ONE
    /\ paddle_speed = SLIDER_ONE
    /\ ball_speed = SLIDER_ONE
    /\ acceleration = TRUE
    /\ hit = NoHit
    /\ scorer = "none"
    /\ rally_frames = 0
    /\ logs = <<>>

\* ------------------------------------------------------------ Game
\* Game.reset_round, the serve's two random draws as parameters.
ResetRound(angle, direction) ==
    /\ left_paddle' = Paddle(LEFT_PADDLE_X, WINDOW_HEIGHT \div 2 - PADDLE_START_INSET)
    /\ right_paddle' = Paddle(WINDOW_WIDTH - RIGHT_PADDLE_INSET,
                              WINDOW_HEIGHT \div 2 - PADDLE_START_INSET)
    /\ ball' = BallReset(ball, WINDOW_WIDTH \div 2, WINDOW_HEIGHT \div 2,
                         angle, direction)

\* reset_game with the scores left as they are.
ResetGameKeepsScores(angle, direction) ==
    /\ UNCHANGED <<left_score, right_score>>
    /\ ResetRound(angle, direction)

\* Game.reset_game
ResetGame(angle, direction) ==
    /\ left_score' = 0
    /\ right_score' = 0
    /\ ResetRound(angle, direction)

\* Game.handle_input: the paddles after the held keys are applied.
HandleInput(keys, dt) ==
    [left |-> IF keys.w THEN Move(left_paddle, -1, dt, paddle_speed)
              ELSE IF keys.s THEN Move(left_paddle, 1, dt, paddle_speed)
              ELSE left_paddle,
     right |-> IF keys.up THEN Move(right_paddle, -1, dt, paddle_speed)
               ELSE IF keys.down THEN Move(right_paddle, 1, dt, paddle_speed)
               ELSE right_paddle]

\* Game.update up to the wall check (lines 670-679): the ball advanced and
\* its collisions with the paddles lp and rp resolved.
BeforeWall(b, lp, rp, dt) ==
    LET effective_dt == (dt * game_speed) \div SLIDER_ONE
        advanced == BallUpdate(b, effective_dt, ball_speed)
        on_left == CheckPaddleCollision(advanced, lp, acceleration)
    IN CheckPaddleCollision(on_left.ball, rp, acceleration).ball

\* The collisions resolved with the wall check ahead of the paddle checks.
ResolveWallFirst(b, lp, rp, dt) ==
    LET effective_dt == (dt * game_speed) \div SLIDER_ONE
        advanced == BallUpdate(b, effective_dt, ball_speed)
        on_wall == CheckWallCollision(advanced)
        on_left == CheckPaddleCollision(on_wall.ball, lp, acceleration)
        on_right == CheckPaddleCollision(on_left.ball, rp, acceleration)
    IN [ball |-> on_right.ball,
        hit |-> [left |-> on_left.hit, right |-> on_right.hit, wall |-> on_wall.hit]]

\* Game.update up to the score check (lines 670-680): the ball advanced and
\* its collisions resolved against the paddles lp and rp, and what each
\* check returned.
Resolve(b, lp, rp, dt) ==
    LET effective_dt == (dt * game_speed) \div SLIDER_ONE
        advanced == BallUpdate(b, effective_dt, ball_speed)
        on_left == CheckPaddleCollision(advanced, lp, acceleration)
        on_right == CheckPaddleCollision(on_left.ball, rp, acceleration)
        on_wall == CheckWallCollision(on_right.ball)
    IN [ball |-> on_wall.ball,
        hit |-> [left |-> on_left.hit, right |-> on_right.hit, wall |-> on_wall.hit]]

\* The match ends one point late.
MatchOverLate(score) == score > WINNING_SCORE

\* The test of lines 687 and 694 on the score just raised.
MatchOver(score) == score >= WINNING_SCORE

\* Game.update, on the paddles lp and rp that handle_input left: nothing
\* unless the state is 'playing'.
Update(lp, rp, dt) ==
    IF state # "playing"
    THEN /\ left_paddle' = lp
         /\ right_paddle' = rp
         /\ UNCHANGED <<state, ball, left_score, right_score, hit, scorer,
                        rally_frames, logs>>
    ELSE
    LET r == Resolve(ball, lp, rp, dt)
        who == CheckScore(r.ball)
    IN /\ hit' = r.hit
       /\ scorer' = who
       /\ IF who = "left"
          THEN /\ left_score' = left_score + 1
               /\ right_score' = right_score
               /\ \E angle \in ServeAngles, direction \in {-1, 1} :
                      ResetRound(angle, direction)
               /\ rally_frames' = 0
               /\ state' = IF MatchOver(left_score + 1) THEN "postgame" ELSE state
               /\ logs' = IF MatchOver(left_score + 1)
                          THEN AddLog(logs, player_names[1], player_names[2],
                                      left_score + 1, right_score)
                          ELSE logs
          ELSE IF who = "right"
          THEN /\ right_score' = right_score + 1
               /\ left_score' = left_score
               /\ \E angle \in ServeAngles, direction \in {-1, 1} :
                      ResetRound(angle, direction)
               /\ rally_frames' = 0
               /\ state' = IF MatchOver(right_score + 1) THEN "postgame" ELSE state
               /\ logs' = IF MatchOver(right_score + 1)
                          THEN AddLog(logs, player_names[1], player_names[2],
                                      left_score, right_score + 1)
                          ELSE logs
          ELSE /\ ball' = r.ball
               /\ left_paddle' = lp
               /\ right_paddle' = rp
               /\ rally_frames' = rally_frames + 1
               /\ UNCHANGED <<left_score, right_score, state, logs>>

\* ------------------------------------------------------------ Game.run
\* StartMenu.handle_event, KEYDOWN: the name fields after typing.
EnterNames ==
    /\ state = "menu"
    /\ \E n1 \in Player1Names, n2 \in Player2Names : menu_names' = <<n1, n2>>
    /\ UNCHANGED <<state, left_paddle, right_paddle, ball, left_score, right_score,
                   player_names, settings, hit, scorer, rally_frames, logs>>

\* 'start' without the call of reset_game.
StartGameNoServe ==
    /\ state = "menu"
    /\ menu_names[1] # "" /\ menu_names[2] # ""
    /\ player_names' = menu_names
    /\ state' = "playing"
    /\ hit' = NoHit /\ scorer' = "none" /\ rally_frames' = 0
    /\ UNCHANGED <<left_paddle, right_paddle, ball, left_score, right_score,
                   menu_names, settings, logs>>

\* 'start' from the start menu (lines 781-788).
StartGame ==
    /\ state = "menu"
    /\ menu_names[1] # "" /\ menu_names[2] # ""
    /\ player_names' = menu_names
    /\ \E angle \in ServeAngles, direction \in {-1, 1} : ResetGame(angle, direction)
    /\ state' = "playing"
    /\ hit' = NoHit /\ scorer' = "none" /\ rally_frames' = 0
    /\ UNCHANGED <<menu_names, settings, logs>>

\* ESCAPE or SPACE while playing (lines 793-796).
Pause ==
    /\ state = "playing"
    /\ state' = "paused"
    /\ UNCHANGED <<left_paddle, right_paddle, ball, left_score, right_score,
                   names, settings, hit, scorer, rally_frames, logs>>

\* ESCAPE, SPACE or the Resume button while paused (lines 800-806).
Resume ==
    /\ state = "paused"
    /\ state' = "playing"
    /\ UNCHANGED <<left_paddle, right_paddle, ball, left_score, right_score,
                   names, settings, hit, scorer, rally_frames, logs>>

\* The Reset button (lines 807-809).
ResetClick ==
    /\ state = "paused"
    /\ \E angle \in ServeAngles, direction \in {-1, 1} : ResetGame(angle, direction)
    /\ state' = "playing"
    /\ hit' = NoHit /\ scorer' = "none" /\ rally_frames' = 0
    /\ UNCHANGED <<names, settings, logs>>

\* The End Game button without its call of add_log.
EndGameNoLog ==
    /\ state = "paused"
    /\ state' = "postgame"
    /\ UNCHANGED <<left_paddle, right_paddle, ball, left_score, right_score,
                   names, settings, hit, scorer, rally_frames, logs>>

\* The End Game button (lines 810-813).
EndGame ==
    /\ state = "paused"
    /\ logs' = AddLog(logs, player_names[1], player_names[2],
                      left_score, right_score)
    /\ state' = "postgame"
    /\ UNCHANGED <<left_paddle, right_paddle, ball, left_score, right_score,
                   names, settings, hit, scorer, rally_frames>>

\* A click elsewhere on the pause screen that lands on the toggle (line 815).
ToggleAcceleration ==
    /\ state = "paused"
    /\ acceleration' = ~acceleration
    /\ UNCHANGED <<state, left_paddle, right_paddle, ball, left_score, right_score,
                   names, game_speed, paddle_speed, ball_speed, hit, scorer,
                   rally_frames, logs>>

\* Slider.handle_event on the three sliders while paused (lines 818-820).
DragGameSpeed ==
    /\ state = "paused"
    /\ \E v \in SliderValues : game_speed' = v
    /\ UNCHANGED <<state, left_paddle, right_paddle, ball, left_score, right_score,
                   names, paddle_speed, ball_speed, acceleration, hit, scorer,
                   rally_frames, logs>>

DragPaddleSpeed ==
    /\ state = "paused"
    /\ \E v \in SliderValues : paddle_speed' = v
    /\ UNCHANGED <<state, left_paddle, right_paddle, ball, left_score, right_score,
                   names, game_speed, ball_speed, acceleration, hit, scorer,
                   rally_frames, logs>>

DragBallSpeed ==
    /\ state = "paused"
    /\ \E v \in SliderValues : ball_speed' = v
    /\ UNCHANGED <<state, left_paddle, right_paddle, ball, left_score, right_score,
                   names, game_speed, paddle_speed, acceleration, hit, scorer,
                   rally_frames, logs>>

\* 'play_again' from the post-game menu (lines 827-829).
PlayAgain ==
    /\ state = "postgame"
    /\ \E angle \in ServeAngles, direction \in {-1, 1} : ResetGame(angle, direction)
    /\ state' = "playing"
    /\ hit' = NoHit /\ scorer' = "none" /\ rally_frames' = 0
    /\ UNCHANGED <<names, settings, logs>>

\* 'main_menu' from the post-game menu (lines 830-831).
MainMenu ==
    /\ state = "postgame"
    /\ state' = "menu"
    /\ UNCHANGED <<left_paddle, right_paddle, ball, left_score, right_score,
                   names, settings, hit, scorer, rally_frames, logs>>

\* The update section without its test of the state.
FrameInAnyState(ms, keys) ==
    LET dt == ms * SLIDER_ONE
        moved == HandleInput(keys, dt)
    IN /\ Update(moved.left, moved.right, dt)
       /\ UNCHANGED <<names, settings>>

\* The update section of one pass of the main loop (lines 833-836) with a
\* frame time of ms milliseconds: nothing unless the state is 'playing'.
Frame(ms, keys) ==
    IF state = "playing"
    THEN LET dt == ms * SLIDER_ONE
             moved == HandleInput(keys, dt)
         IN /\ Update(moved.left, moved.right, dt)
            /\ UNCHANGED <<names, settings>>
    ELSE UNCHANGED vars

\* ------------------------------------------------------------ the match
\* The whole game on a slow machine, the pause screen's sliders and toggle
\* left alone.  The log only grows and nothing but the post-game screen
\* reads it, so a later match plays as the first one does: play is
\* followed until the log gets its first record, and after that matches are
\* started and ended with End Game until the log holds MaxLogs records.
GameFrame ==
    /\ rally_frames < MaxFrames
    /\ logs = <<>>
    /\ \E keys \in SameWayKeys, ms \in SlowDts : Frame(ms, keys)

EndGameClick ==
    /\ Len(logs) < MaxLogs
    /\ EndGame

Next ==
    \/ EnterNames
    \/ StartGame
    \/ Pause
    \/ Resume
    \/ ResetClick
    \/ EndGameClick
    \/ PlayAgain
    \/ MainMenu
    \/ GameFrame

Spec == Init /\ [][Next]_vars

\* ------------------------------------------------------------ one rally
\* The game paused right after 'start', before its first frame: the pause
\* screen's sliders and toggle are set, the game is resumed and played on
\* a slow machine until MaxPoints points are scored.
InitRally ==
    /\ state = "paused"
    /\ left_paddle = Paddle(LEFT_PADDLE_X, WINDOW_HEIGHT \div 2 - PADDLE_START_INSET)
    /\ right_paddle = Paddle(WINDOW_WIDTH - RIGHT_PADDLE_INSET,
                             WINDOW_HEIGHT \div 2 - PADDLE_START_INSET)
    /\ \E angle \in ServeAngles, direction \in {-1, 1} :
          ball = BallReset(Ball(WINDOW_WIDTH \div 2, WINDOW_HEIGHT \div 2),
                           WINDOW_WIDTH \div 2, WINDOW_HEIGHT \div 2, angle, direction)
    /\ left_score = 0
    /\ right_score = 0
    /\ player_names = <<"Ann", "Bob">>
    /\ menu_names = <<"Ann", "Bob">>
    /\ game_speed = SLIDER_ONE
    /\ paddle_speed = SLIDER_ONE
    /\ ball_speed = SLIDER_ONE
    /\ acceleration = TRUE
    /\ hit = NoHit
    /\ scorer = "none"
    /\ rally_frames = 0
    /\ logs = <<>>

RallyFrame ==
    /\ rally_frames < MaxFrames
    /\ left_score + right_score < MaxPoints
    /\ \E keys \in SameWayKeys, ms \in SlowDts : Frame(ms, keys)

NextRally ==
    \/ ToggleAcceleration
    \/ DragGameSpeed
    \/ DragPaddleSpeed
    \/ DragBallSpeed
    \/ Resume
    \/ RallyFrame

SpecRally == InitRally /\ [][NextRally]_vars

\* ------------------------------------------------------------ one serve
\* The serve with angle 0 and direction -1 drawn, on a machine that keeps
\* FPS = 60 and with no key held: the ball flies at the left paddle, which
\* stands at its start position.  Game and ball speed are at 1.0 or 2.0.
\* The play is followed until the first frame in which the left paddle is
\* hit or a point is scored.
InitScenario ==
    /\ state = "playing"
    /\ left_paddle = Paddle(LEFT_PADDLE_X, WINDOW_HEIGHT \div 2 - PADDLE_START_INSET)
    /\ right_paddle = Paddle(WINDOW_WIDTH - RIGHT_PADDLE_INSET,
                             WINDOW_HEIGHT \div 2 - PADDLE_START_INSET)
    /\ ball = BallReset(Ball(WINDOW_WIDTH \div 2, WINDOW_HEIGHT \div 2),
                        WINDOW_WIDTH \div 2, WINDOW_HEIGHT \div 2, 0, -1)
    /\ left_score = 0
    /\ right_score = 0
    /\ player_names = <<"Ann", "Bob">>
    /\ menu_names = <<"Ann", "Bob">>
    /\ game_speed \in {SLIDER_ONE, 2 * SLIDER_ONE}
    /\ paddle_speed = SLIDER_ONE
    /\ ball_speed \in {SLIDER_ONE, 2 * SLIDER_ONE}
    /\ acceleration \in BOOLEAN
    /\ hit = NoHit
    /\ scorer = "none"
    /\ rally_frames = 0
    /\ logs = <<>>

ScenarioFrame ==
    /\ ~hit.left
    /\ scorer = "none"
    /\ \E ms \in SteadyDts : Frame(ms, NoKeys)

NextScenario == ScenarioFrame

SpecScenario == InitScenario /\ [][NextScenario]_vars

\* ------------------------------------------------------------ one corner
\* A rally at five frames a second with game and ball speed at 1.0 and the
\* paddle speed at 0.5 or 2.0, acceleration on or off, followed until
\* MaxPoints points are scored: the paddles are steered into the corners of
\* the field, where the ball meets a paddle and a wall in one frame.
InitOrder ==
    /\ state = "playing"
    /\ left_paddle = Paddle(LEFT_PADDLE_X, WINDOW_HEIGHT \div 2 - PADDLE_START_INSET)
    /\ right_paddle = Paddle(WINDOW_WIDTH - RIGHT_PADDLE_INSET,
                             WINDOW_HEIGHT \div 2 - PADDLE_START_INSET)
    /\ \E angle \in ServeAngles, direction \in {-1, 1} :
          ball = BallReset(Ball(WINDOW_WIDTH \div 2, WINDOW_HEIGHT \div 2),
                           WINDOW_WIDTH \div 2, WINDOW_HEIGHT \div 2, angle, direction)
    /\ left_score = 0
    /\ right_score = 0
    /\ player_names = <<"Ann", "Bob">>
    /\ menu_names = <<"Ann", "Bob">>
    /\ game_speed = SLIDER_ONE
    /\ paddle_speed \in SliderValues
    /\ ball_speed = SLIDER_ONE
    /\ acceleration \in BOOLEAN
    /\ hit = NoHit
    /\ scorer = "none"
    /\ rally_frames = 0
    /\ logs = <<>>

OrderFrame ==
    /\ rally_frames < MaxFrames
    /\ left_score + right_score < MaxPoints
    /\ \E keys \in SameWayKeys, ms \in FifthDts : Frame(ms, keys)

NextOrder == OrderFrame

SpecOrder == InitOrder /\ [][NextOrder]_vars

\* ------------------------------------------------------------ one volley
\* A rally on a machine that keeps FPS = 60, with game speed and ball speed at
\* 2.0, acceleration on and no key held: the serve with angle 0 sends the ball
\* at a paddle's center, and it flies level from paddle to paddle, 5% faster
\* after every hit, until the first point.
InitVolley ==
    /\ state = "playing"
    /\ left_paddle = Paddle(LEFT_PADDLE_X, WINDOW_HEIGHT \div 2 - PADDLE_START_INSET)
    /\ right_paddle = Paddle(WINDOW_WIDTH - RIGHT_PADDLE_INSET,
                             WINDOW_HEIGHT \div 2 - PADDLE_START_INSET)
    /\ \E direction \in {-1, 1} :
          ball = BallReset(Ball(WINDOW_WIDTH \div 2, WINDOW_HEIGHT \div 2),
                           WINDOW_WIDTH \div 2, WINDOW_HEIGHT \div 2, 0, direction)
    /\ left_score = 0
    /\ right_score = 0
    /\ player_names = <<"Ann", "Bob">>
    /\ menu_names = <<"Ann", "Bob">>
    /\ game_speed = 2 * SLIDER_ONE
    /\ paddle_speed = SLIDER_ONE
    /\ ball_speed = 2 * SLIDER_ONE
    /\ acceleration = TRUE
    /\ hit = NoHit
    /\ scorer = "none"
    /\ rally_frames = 0
    /\ logs = <<>>

VolleyFrame ==
    /\ rally_frames < MaxVolley
    /\ left_score + right_score < MaxPoints
    /\ \E ms \in SteadyDts : Frame(ms, NoKeys)

NextVolley == VolleyFrame

SpecVolley == InitVolley /\ [][NextVolley]_vars

\* ------------------------------------------------------------ claims
\* C1: in every reachable state each paddle's position.y lies between 0 and
\* WINDOW_HEIGHT - height, whatever moves (direction -1 or 1, any frame
\* time, paddle speed multiplier 0.5, 1.0 or 2.0) and round resets came
\* before.
PaddleInBounds(paddle) ==
    /\ 0 <= paddle.position.y
    /\ paddle.position.y <= H - PaddleH

C1_PaddlesClamped == PaddleInBounds(left_paddle) /\ PaddleInBounds(right_paddle)

\* A paddle moved at twice its speed stands clamped at the bottom wall.
C1_Witness ==
    /\ state = "playing"
    /\ paddle_speed = 2 * SLIDER_ONE
    /\ rally_frames > 0
    /\ left_paddle.position.y = H - PaddleH

\* C2: in every reachable state of the game, over frames, pauses, resets,
\* End Game, Play Again and Main Menu, both scores are at least 0 and at
\* most winning_score.
C2_ScoresInRange ==
    /\ left_score \in 0..WINNING_SCORE
    /\ right_score \in 0..WINNING_SCORE

\* A match won by the left player against a right player who has scored.
C2_Witness ==
    /\ state = "postgame"
    /\ left_score = WINNING_SCORE
    /\ right_score > 0

\* C3: in no reachable state is the state 'playing' while a score equals
\* winning_score: the update that raises a score to winning_score leaves
\* the state 'postgame', and the ways back to 'playing' zero the scores.
C3_NoPlayAtWinningScore ==
    state = "playing" => left_score < WINNING_SCORE /\ right_score < WINNING_SCORE

\* The update that raised the right score to winning_score has just run.
C3_Witness ==
    /\ state = "postgame"
    /\ scorer = "right"
    /\ right_score = WINNING_SCORE

\* C4: whenever the state is 'playing' the magnitude of the ball's velocity
\* is greater than 0.
C4_BallMoves == state = "playing" => Magnitude(ball.velocity) > 0

\* Play goes on after a frame in which the ball bounced off the left paddle.
C4_Witness ==
    /\ state = "playing"
    /\ rally_frames > 0
    /\ hit.left

\* C5: physics only advances in the 'playing' state: a step taken in
\* 'menu', 'paused' or 'postgame' leaves the ball's position and velocity,
\* both paddles and both scores unchanged, unless it is a reset_game, which
\* zeroes the scores, serves from the center and enters 'playing'.
C5_PhysicsOnlyWhenPlaying ==
    [][state # "playing" =>
          \/ UNCHANGED <<ball, left_paddle, right_paddle, left_score, right_score>>
          \/ /\ state' = "playing"
             /\ left_score' = 0
             /\ right_score' = 0
             /\ rally_frames' = 0
             /\ ball'.position = Vector2D(W \div 2, H \div 2)
             /\ left_paddle' = Paddle(LEFT_PADDLE_X, WINDOW_HEIGHT \div 2 - PADDLE_START_INSET)
             /\ right_paddle' = Paddle(WINDOW_WIDTH - RIGHT_PADDLE_INSET,
                                       WINDOW_HEIGHT \div 2 - PADDLE_START_INSET)]_vars

\* The game stands paused in the middle of a rally, the ball in flight after
\* a bounce off the left paddle.
C5_Witness ==
    /\ state = "paused"
    /\ rally_frames > 0
    /\ hit.left
    /\ ball.position # Vector2D(W \div 2, H \div 2)

\* C6: in a 'playing' frame, with the ball advanced and its collisions
\* resolved: if position.x - radius <= 0 the right score grows by exactly 1
\* and the left score is unchanged; else if position.x + radius >=
\* WINDOW_WIDTH the left score grows by exactly 1 and the right score is
\* unchanged; otherwise both scores are unchanged.  So a frame awards at most
\* one point.
C6_ScoringRelation ==
    [][\A keys \in SameWayKeys, ms \in SlowDts :
          (state = "playing" /\ Frame(ms, keys)) =>
              LET moved == HandleInput(keys, ms * SLIDER_ONE)
                  resolved == Resolve(ball, moved.left, moved.right,
                                      ms * SLIDER_ONE).ball
              IN IF resolved.position.x - Radius <= 0
                 THEN right_score' = right_score + 1 /\ left_score' = left_score
                 ELSE IF resolved.position.x + Radius >= W
                 THEN left_score' = left_score + 1 /\ right_score' = right_score
                 ELSE left_score' = left_score /\ right_score' = right_score]_vars

\* The right player has just scored a second point, the left player has one.
C6_Witness ==
    /\ scorer = "right"
    /\ right_score = 2
    /\ left_score = 1

\* C7 as claimed: right after a score or a reset_game the ball is at the
\* center, its speed equals base_speed exactly, its serve angle is at most
\* 45 degrees from the horizontal with a horizontal direction of -1 or +1,
\* and both paddles are at their start positions.
C7_ServeAtExactBaseSpeed ==
    (state # "menu" /\ rally_frames = 0) =>
        /\ ball.position = Vector2D(W \div 2, H \div 2)
        /\ Magnitude(ball.velocity) = BASE_SPEED * PX
        /\ ball.velocity.x # 0
        /\ Abs(ball.velocity.y) <= Abs(ball.velocity.x)
        /\ left_paddle = Paddle(LEFT_PADDLE_X, WINDOW_HEIGHT \div 2 - PADDLE_START_INSET)
        /\ right_paddle = Paddle(WINDOW_WIDTH - RIGHT_PADDLE_INSET,
                                 WINDOW_HEIGHT \div 2 - PADDLE_START_INSET)

\* C7 as amended: the same, the speed equal to base_speed up to the rounding
\* of the arithmetic (here one unit of length per second).
C7_ServeAtBaseSpeed ==
    (state # "menu" /\ rally_frames = 0) =>
        /\ ball.position = Vector2D(W \div 2, H \div 2)
        /\ Abs(Magnitude(ball.velocity) - BASE_SPEED * PX) <= 1
        /\ ball.velocity.x # 0
        /\ Abs(ball.velocity.y) <= Abs(ball.velocity.x)
        /\ left_paddle = Paddle(LEFT_PADDLE_X, WINDOW_HEIGHT \div 2 - PADDLE_START_INSET)
        /\ right_paddle = Paddle(WINDOW_WIDTH - RIGHT_PADDLE_INSET,
                                 WINDOW_HEIGHT \div 2 - PADDLE_START_INSET)

\* The left player has just scored and play goes on with a new serve.
C7_Witness ==
    /\ state = "playing"
    /\ rally_frames = 0
    /\ scorer = "left"
    /\ left_score > 0

\* C8 as claimed: after a paddle collision the push-out prevents an immediate
\* re-collision: if check_paddle_collision returns True for a paddle in one
\* frame of a rally, it returns False for that paddle in the next frame.
C8_NoImmediateRecollision ==
    [][(state = "playing" /\ rally_frames > 0 /\ rally_frames' = rally_frames + 1) =>
          /\ ~(hit.left /\ hit'.left)
          /\ ~(hit.right /\ hit'.right)]_vars

\* C9: with acceleration enabled a paddle hit multiplies the ball's speed by
\* acceleration_factor (1.05), at every hit of a rally, so that the speed
\* compounds from hit to hit; with acceleration disabled a paddle hit leaves
\* the speed unchanged; both up to the rounding of the arithmetic (two units
\* of length per second).  A frame without a paddle hit, with or without a
\* wall bounce, leaves the speed exactly unchanged.
C9_SpeedCompounds ==
    [][(state = "playing" /\ rally_frames' = rally_frames + 1) =>
          LET before == Magnitude(ball.velocity)
              after == Magnitude(ball'.velocity)
              once == RoundDiv(before * ACCELERATION_PERCENT, 100)
              twice == RoundDiv(once * ACCELERATION_PERCENT, 100)
          IN IF ~hit'.left /\ ~hit'.right THEN after = before
             ELSE IF ~acceleration THEN Abs(after - before) <= 2
             ELSE IF hit'.left /\ hit'.right THEN Abs(after - twice) <= 2
             ELSE Abs(after - once) <= 2]_vars

\* With acceleration enabled the ball has just been hit a second time in its
\* rally: its speed is base_speed times 1.05 times 1.05.
C9_Witness ==
    /\ state = "playing"
    /\ acceleration
    /\ hit.left \/ hit.right
    /\ Abs(100 * 100 * Magnitude(ball.velocity)
             - ACCELERATION_PERCENT * ACCELERATION_PERCENT * BASE_SPEED * PX) <= 100 * 100 * 4

C11_WallReflection ==
    [][\A keys \in SameWayKeys, ms \in SlowDts :
          (state = "playing" /\ Frame(ms, keys) /\ scorer' = "none") =>
              LET moved == HandleInput(keys, ms * SLIDER_ONE)
                  before == BeforeWall(ball, moved.left, moved.right,
                                       ms * SLIDER_ONE)
                  inverted == Vector2D(before.velocity.x, -before.velocity.y)
              IN IF before.position.y - Radius <= 0
                 THEN /\ hit'.wall
                      /\ ball'.position = Vector2D(before.position.x, Radius)
                      /\ before.velocity.y < 0 => ball'.velocity = inverted
                 ELSE IF before.position.y + Radius >= H
                 THEN /\ hit'.wall
                      /\ ball'.position = Vector2D(before.position.x, H - Radius)
                      /\ before.velocity.y > 0 => ball'.velocity = inverted
                 ELSE ~hit'.wall /\ ball' = before]_vars

\* The ball has just bounced off the bottom wall and flies upwards.
C11_Witness ==
    /\ state = "playing"
    /\ hit.wall
    /\ ball.position.y = H - Radius
    /\ ball.velocity.y < 0

\* C12: in every frame in which a paddle collision is detected, whatever the
\* ball's offset from the paddle's center (corner hits beyond half the
\* paddle's height included), the velocity after the bounce makes an angle of
\* at most MAX_BOUNCE_ANGLE with the horizontal (|vy| * cos 60 <= |vx| * sin 60,
\* up to the rounding of the two components) and the sign of its horizontal
\* component is the opposite of the incoming velocity.x's.
C12_BounceAngleBound ==
    [][\A keys \in SameWayKeys, ms \in SlowDts :
          (/\ state = "playing"
           /\ Frame(ms, keys)
           /\ scorer' = "none"
           /\ hit'.left # hit'.right) =>
              /\ Abs(ball'.velocity.y) * Cos(MAX_BOUNCE_ANGLE)
                     <= Abs(ball'.velocity.x) * Sin(MAX_BOUNCE_ANGLE) + TRIG_ONE
              /\ Sign(ball'.velocity.x) = -Sign(ball.velocity.x)
              /\ ball.velocity.x # 0]_vars

\* The left paddle has just been hit on its top corner: the ball's center is
\* above the paddle's top edge, more than half the height from its center.
C12_Witness ==
    /\ state = "playing"
    /\ hit.left
    /\ ~hit.right
    /\ ball.position.y < left_paddle.position.y
    /\ ball.velocity.x > 0
    /\ Abs(ball.velocity.y) > Abs(ball.velocity.x)

\* C13: in every 'playing' frame with no paddle collision, no wall collision
\* and no score the ball's velocity after update equals its velocity before,
\* and its position changes by velocity * dt * game speed * ball speed
\* multiplier (to the nearest position unit, in each coordinate).
C13_Conservation ==
    [][\A keys \in SameWayKeys, ms \in SlowDts :
          (/\ state = "playing"
           /\ Frame(ms, keys)
           /\ scorer' = "none"
           /\ hit' = NoHit) =>
              LET one == TicksPerSecond * SLIDER_ONE
                  factor == ms * game_speed * ball_speed
                  dx == ball'.position.x - ball.position.x
                  dy == ball'.position.y - ball.position.y
              IN /\ ball'.velocity = ball.velocity
                 /\ 2 * Abs(dx * one - ball.velocity.x * factor) <= one
                 /\ 2 * Abs(dy * one - ball.velocity.y * factor) <= one]_vars

\* A frame without collision or score has moved the ball, at a game speed and
\* a ball speed other than 1.0.
C13_Witness ==
    /\ state = "playing"
    /\ rally_frames > 1
    /\ hit = NoHit
    /\ scorer = "none"
    /\ game_speed # SLIDER_ONE
    /\ ball_speed # SLIDER_ONE
    /\ ball.velocity.y # 0

\* C17: at the end of every 'playing' frame the ball lies fully inside the
\* playfield: radius <= position.y <= WINDOW_HEIGHT - radius and
\* radius < position.x < WINDOW_WIDTH - radius.
C17_BallInsidePlayfield ==
    state = "playing" =>
        /\ Radius <= ball.position.y
        /\ ball.position.y <= H - Radius
        /\ Radius < ball.position.x
        /\ ball.position.x < W - Radius

\* A frame has ended with the ball clamped against the top wall.
C17_Witness ==
    /\ state = "playing"
    /\ rally_frames > 0
    /\ hit.wall
    /\ ball.position.y = Radius

\* PostGameMenu.draw's winner announcement (lines 547-551): the name that
\* precedes " Wins!".
WinnerText(player1_name, player2_name, left, right) ==
    IF left > right THEN player1_name ELSE player2_name

\* The announcement Game.draw shows in 'postgame' (lines 705-708).
Announced ==
    WinnerText(player_names[1], player_names[2], left_score, right_score)

\* C18: in 'postgame' the announced winner is the player with the strictly
\* higher score: player 1 is announced if and only if left_score > right_score
\* and player 2 if and only if right_score > left_score, however 'postgame'
\* was reached, End Game included.
C18_WinnerHasHigherScore ==
    state = "postgame" =>
        /\ Announced = player_names[1] <=> left_score > right_score
        /\ Announced = player_names[2] <=> right_score > left_score

\* C16: whatever speed the ball has reached (compounded acceleration and
\* multipliers up to 2.0 included), a ball that starts a frame in front of a
\* paddle with its center within the paddle's vertical extent does not end the
\* frame behind that paddle, or at the scoring boundary behind it, unless
\* check_paddle_collision on that paddle returned True in the frame.
C16_NoTunneling ==
    [][\A ms \in SteadyDts :
          (state = "playing" /\ Frame(ms, NoKeys)) =>
              /\ (/\ ball.position.x - Radius >= left_paddle.position.x + PaddleW
                  /\ ball.position.y >= left_paddle'.position.y
                  /\ ball.position.y <= left_paddle'.position.y + PaddleH
                  /\ \/ scorer' = "right"
                     \/ scorer' = "none"
                        /\ ball'.position.x < left_paddle'.position.x)
                 => hit'.left
              /\ (/\ ball.position.x + Radius <= right_paddle.position.x
                  /\ ball.position.y >= right_paddle'.position.y
                  /\ ball.position.y <= right_paddle'.position.y + PaddleH
                  /\ \/ scorer' = "left"
                     \/ scorer' = "none"
                        /\ ball'.position.x > right_paddle'.position.x + PaddleW)
                 => hit'.right]_vars

\* C15: a frame resolves in the order paddle movement, ball advance,
\* left-paddle collision, right-paddle collision, wall collision, score
\* check.  In a frame in which a paddle collision and a wall collision both
\* fire, the paddle hit is the one of the advanced ball on the moved paddles,
\* the final velocity is the wall reflection of the paddle-bounce velocity,
\* the final position is the pushed-out position clamped to the wall, and
\* the score check is made on that position.
C15_ResolutionOrder ==
    [][\A keys \in SameWayKeys, ms \in FifthDts :
          (/\ state = "playing"
           /\ Frame(ms, keys)
           /\ hit'.wall
           /\ hit'.left \/ hit'.right) =>
              LET moved == HandleInput(keys, ms * SLIDER_ONE)
                  effective_dt == (ms * SLIDER_ONE * game_speed) \div SLIDER_ONE
                  advanced == BallUpdate(ball, effective_dt, ball_speed)
                  on_left == CheckPaddleCollision(advanced, moved.left, acceleration)
                  on_right == CheckPaddleCollision(on_left.ball, moved.right,
                                                   acceleration)
                  bounced == on_right.ball
                  final ==
                      [position |->
                           Vector2D(bounced.position.x,
                                    IF bounced.position.y - Radius <= 0
                                    THEN Radius ELSE H - Radius),
                       velocity |->
                           Vector2D(bounced.velocity.x, -bounced.velocity.y)]
              IN /\ hit'.left = on_left.hit
                 /\ hit'.right = on_right.hit
                 /\ scorer' = CheckScore(final)
                 /\ scorer' = "none" =>
                        /\ ball' = final
                        /\ left_paddle' = moved.left
                        /\ right_paddle' = moved.right]_vars

\* A frame has ended in which the ball hit one paddle, away from its center,
\* and then a wall.
C15_Witness ==
    /\ state = "playing"
    /\ scorer = "none"
    /\ hit.wall
    /\ hit.left # hit.right
    /\ ball.velocity.y # 0

\* C14: every transition into 'postgame', by a score reaching winning_score
\* or by End Game, appends exactly one record
\* "{name1} vs {name2}: {leftScore}-{rightScore}" with the scores of that
\* moment to the log, and no other step changes the log.
C14_OneRecordPerMatch ==
    [][IF state # "postgame" /\ state' = "postgame"
       THEN logs' = Append(logs, LogEntry(player_names'[1], player_names'[2],
                                          left_score', right_score'))
       ELSE logs' = logs]_vars

\* A match won 5-0 and a match ended with End Game before its first frame
\* have left one record each.
C14_Witness ==
    /\ state = "postgame"
    /\ left_score = 0
    /\ right_score = 0
    /\ logs = <<"Ann vs Bob: 5-0", "Ann vs Bob: 0-0">>

====
